---- MODULE Spec2Model ----
(***************************************************************************)
(* Model of the granolaa relay (server/server.js): the length-prefixed     *)
(* frame decoder (feedChunk), the stream registry (activeStreams,          *)
(* streamBuffers, registerStream, unregisterStream), the fan-out to the    *)
(* viewers (broadcastFrame, broadcastStreamUpdate, sendStreamList) and the *)
(* handlers of the producer requests and of the viewer sockets.            *)
(*                                                                         *)
(* Four specifications share the variables:                                *)
(*   DecoderSpec  one registered stream fed a byte stream in every         *)
(*                chunking (the decoder as a function of its input);       *)
(*   UploadSpec   the same stream up to the 'end' of its request;          *)
(*   Spec         the relay: producer connections, registry, viewers;      *)
(*   PageSpec     the viewer page (server/public/app.js): its sockets and  *)
(*                its reconnect timer.                                     *)
(***************************************************************************)
EXTENDS Integers, Sequences, FiniteSets, TLC

(***************************************************************************)
(* Program constants and bounds                                            *)
(***************************************************************************)

\* server.js:112  10 * 1024 * 1024
MaxFrameLen == 10485760

\* server.js:98, 109, 120  the length prefix is 4 bytes
PrefixLen == 4

\* DecoderSpec: the byte streams fed have at most this many bytes.
MaxStream == 12

\* Spec: at most this many producer requests are accepted over a run.
MaxConns == 2

\* Spec: at most this many viewer sockets connect over a run.
MaxViewers == 2

\* Spec: at most this many events are delivered over a run.
MaxEvents == 6

\* Values of the payload bytes of the frames fed.
PayloadBytes == {0, 1}

ClientIds == {"a", "b"}

StreamTypes == {"screen", "webcam"}

(***************************************************************************)
(* Bytes                                                                   *)
(***************************************************************************)

\* Buffer.readUInt32BE(0): the first four bytes as a big-endian unsigned.
readUInt32BE(buf) ==
    buf[1] * 16777216 + buf[2] * 65536 + buf[3] * 256 + buf[4]

\* ByteBuffer.putInt: the four bytes of n, most significant first.
putInt(n) ==
    << (n \div 16777216) % 256, (n \div 65536) % 256, (n \div 256) % 256, n % 256 >>

\* Buffer.subarray(start): the bytes from offset start (0-based) on.
subarrayFrom(buf, start) ==
    SubSeq(buf, start + 1, Len(buf))

\* Buffer.subarray(0, end): the first end bytes.
subarrayTo(buf, end) ==
    SubSeq(buf, 1, end)

\* StreamClient.sendOne: the request body of one frame.
EncodeFrame(payload) ==
    putInt(Len(payload)) \o payload

\* Buffer.toString('base64') of 1, 2 or 3 bytes: four characters, each the
\* index of a base64 digit, 64 standing for the padding '='.
Base64Group(g) ==
    LET b1 == g[1]
        b2 == IF Len(g) >= 2 THEN g[2] ELSE 0
        b3 == IF Len(g) >= 3 THEN g[3] ELSE 0
        n  == b1 * 65536 + b2 * 256 + b3
    IN  << n \div 262144,
           (n \div 4096) % 64,
           IF Len(g) >= 2 THEN (n \div 64) % 64 ELSE 64,
           IF Len(g) >= 3 THEN n % 64 ELSE 64 >>

RECURSIVE toBase64(_)
toBase64(bytes) ==
    IF Len(bytes) = 0 THEN << >>
    ELSE IF Len(bytes) <= 3 THEN Base64Group(bytes)
    ELSE Base64Group(SubSeq(bytes, 1, 3)) \o toBase64(SubSeq(bytes, 4, Len(bytes)))

(***************************************************************************)
(* The decoder: feedChunk's loop on one decode state                       *)
(***************************************************************************)

\* server.js:98  the decode state registerStream creates.
FreshState == [buf |-> << >>, need |-> PrefixLen, payloadLen |-> 0]

\* The reset also dropping the bytes buffered after the prefix.
OversizeResetDropsBuffer(rest) ==
    [buf |-> << >>, need |-> PrefixLen, payloadLen |-> 0]

\* server.js:111-112  the state left by a declared length above the
\* maximum: the prefix consumed, the decoder awaiting a prefix again.
OversizeReset(rest) ==
    [buf |-> rest, need |-> PrefixLen, payloadLen |-> 0]

\* server.js:108-125  the while loop.  st is the decode state, frames the
\* payloads handed to broadcastFrame so far in this call, reads the length
\* prefixes read so far in this call: the declared length and the number
\* of bytes that were buffered when it was read.
RECURSIVE FeedLoop(_, _, _)
FeedLoop(st, frames, reads) ==
    LET readsPrefix == st.need = PrefixLen /\ Len(st.buf) >= PrefixLen
        len   == readUInt32BE(st.buf)
        rest  == subarrayFrom(st.buf, PrefixLen)
        reads1 == IF readsPrefix
                  THEN Append(reads, [len |-> len, buffered |-> Len(st.buf)])
                  ELSE reads
        s1    == IF readsPrefix
                 THEN [buf |-> rest, need |-> len, payloadLen |-> len]
                 ELSE st
    IN  IF readsPrefix /\ len > MaxFrameLen
        THEN [state |-> OversizeReset(rest), frames |-> frames, reads |-> reads1]
        ELSE IF s1.need > 0 /\ Len(s1.buf) >= s1.need
        THEN FeedLoop([buf |-> subarrayFrom(s1.buf, s1.need),
                       need |-> PrefixLen, payloadLen |-> 0],
                      Append(frames, subarrayTo(s1.buf, s1.need)),
                      reads1)
        ELSE [state |-> s1, frames |-> frames, reads |-> reads1]

\* The loop run on the chunk alone, the bytes buffered before it dropped.
DecodeChunkAlone(st, chunk) ==
    FeedLoop([st EXCEPT !.buf = chunk], << >>, << >>)

\* server.js:107-125  the chunk appended to the buffer, then the loop.
Decode(st, chunk) ==
    FeedLoop([st EXCEPT !.buf = st.buf \o chunk], << >>, << >>)

(***************************************************************************)
(* State                                                                   *)
(***************************************************************************)

VARIABLES
    activeStreams,   \* server.js:46   Map clientId -> {screen, webcam}, in insertion order
    streamBuffers,   \* server.js:87   Map bufferKey -> decode state
    viewingClients,  \* server.js:148  Set of viewer sockets, in insertion order
    readyState,      \* per viewer socket: ws.readyState
    sendThrows,      \* per viewer socket: whether ws.send throws while it is OPEN
    inbox,           \* per viewer socket: the messages sent to it, in order
    published,       \* the messages the last handler handed to a broadcast, in order
    uncaught,        \* whether an exception has escaped a handler
    conns,           \* the producer requests
    items,           \* DecoderSpec: the frames and raw prefixes of the stream fed
    pos,             \* DecoderSpec: number of bytes of the stream fed so far
    reads,           \* DecoderSpec: the length prefixes the decoder has read: the length
                     \* declared, the offset at which the prefix starts in the stream,
                     \* the offsets from and up to which the chunk it was read in goes
    out,             \* DecoderSpec: the data of the frame messages published
    page             \* PageSpec: the viewer page (public/app.js): its sockets, its
                     \* variables ws and reconnectTimeout, its timers, its clock

vars ==
    << activeStreams, streamBuffers, viewingClients, readyState, sendThrows,
       inbox, published, uncaught, conns, items, pos, reads, out, page >>

ConnIds == 1 .. MaxConns

Viewers == 1 .. MaxViewers

\* A key with no entry in streamBuffers (Map.get gives undefined).
NoState == [buf |-> << >>, need |-> -1, payloadLen |-> -1]

\* server.js:89-91  `${clientId}:${streamType}`.  streamType is "screen" or
\* "webcam", neither holds a colon, so two keys are equal exactly when both
\* parts are: the key is the pair.
bufferKey(clientId, streamType) ==
    << clientId, streamType >>

Keys == { bufferKey(id, t) : id \in ClientIds, t \in StreamTypes }

(***************************************************************************)
(* The viewer page (public/app.js): connect and the socket handlers        *)
(***************************************************************************)

\* app.js:62  the delay of the reconnect timer: 3000 ms, in seconds.
ReconnectDelay == 3

\* PageSpec: the page creates at most this many sockets over a run.
MaxSockets == 4

\* PageSpec: the clock runs up to this many seconds.
MaxTime == 6

\* app.js:2, 5  the page before connect() has run: ws and reconnectTimeout
\* are null (0 here), no socket has been created, no timer is pending.
\* sockets holds the readyState of each socket created, in creation order;
\* timers the pending timers; timerIds the number of setTimeout calls;
\* status the class of the status element.
BlankPage ==
    [sockets |-> << >>, ws |-> 0, reconnectTimeout |-> 0, timers |-> {},
     timerIds |-> 0, now |-> 0, status |-> "none"]

\* app.js:21-71  connect(): a new socket, assigned to ws.
connect(p) ==
    [p EXCEPT !.sockets = Append(@, "CONNECTING"),
              !.ws = Len(p.sockets) + 1,
              !.status = "connecting"]

\* app.js:28-36  onopen of socket s.
onopen(p, s) ==
    LET p1 == [p EXCEPT !.sockets[s] = "OPEN", !.status = "connected"]
    IN  IF p.reconnectTimeout # 0
        THEN [p1 EXCEPT !.timers = { t \in @ : t.id # p.reconnectTimeout },
                        !.reconnectTimeout = 0]
        ELSE p1

\* onclose scheduling a reconnect whether or not one is pending.
oncloseAlwaysSchedules(p, s) ==
    [p EXCEPT !.sockets[s] = "CLOSED",
              !.status = "disconnected",
              !.timerIds = @ + 1,
              !.timers = @ \cup {[id |-> p.timerIds + 1, due |-> p.now + ReconnectDelay]},
              !.reconnectTimeout = p.timerIds + 1]

\* app.js:52-64  onclose of socket s.
onclose(p, s) ==
    LET p1 == [p EXCEPT !.sockets[s] = "CLOSED", !.status = "disconnected"]
    IN  IF p.reconnectTimeout = 0
        THEN [p1 EXCEPT !.timerIds = @ + 1,
                        !.timers = @ \cup {[id |-> p.timerIds + 1,
                                            due |-> p.now + ReconnectDelay]},
                        !.reconnectTimeout = p.timerIds + 1]
        ELSE p1

\* app.js:66-70  onerror of socket s.
onerror(p, s) ==
    [p EXCEPT !.status = "error"]

\* app.js:59-62  the callback of the reconnect timer t.
reconnectCallback(p, t) ==
    connect([p EXCEPT !.timers = @ \ {t}, !.reconnectTimeout = 0])

\* app.js:235-242  refreshStreams(): a refresh message on the open socket
\* (the relay has no handler for it), else connect().
refreshStreams(p) ==
    IF p.ws # 0 /\ p.sockets[p.ws] = "OPEN" THEN p ELSE connect(p)

(***************************************************************************)
(* Fan-out                                                                 *)
(***************************************************************************)

\* server.js:168-174  the frame message (JSON.stringify of these fields).
FrameMessage(clientId, streamType, frameData) ==
    [type |-> "frame", clientId |-> clientId, streamType |-> streamType,
     data |-> toBase64(frameData)]

\* server.js:188-192, 211-215  the stream list of the registry.
StreamList(as) ==
    [i \in 1 .. Len(as) |->
        [clientId |-> as[i].clientId,
         hasScreen |-> as[i].screen = TRUE,
         hasWebcam |-> as[i].webcam = TRUE]]

\* server.js:194-197, 217-220  the streams message.
StreamsMessage(as) ==
    [type |-> "streams", streams |-> StreamList(as)]

\* The send without the try/catch around it.
TrySendNoCatch(client, box, message) ==
    IF readyState[client] = "OPEN"
    THEN IF sendThrows[client]
         THEN [inbox |-> box, escaped |-> TRUE]
         ELSE [inbox |-> [box EXCEPT ![client] = Append(@, message)], escaped |-> FALSE]
    ELSE [inbox |-> box, escaped |-> FALSE]

\* server.js:177-183, 200-206  one iteration of forEach: the send, guarded
\* by readyState and wrapped in try/catch.  escaped: an exception left it.
TrySend(client, box, message) ==
    IF readyState[client] = "OPEN"
    THEN IF sendThrows[client]
         THEN [inbox |-> box, escaped |-> FALSE]
         ELSE [inbox |-> [box EXCEPT ![client] = Append(@, message)], escaped |-> FALSE]
    ELSE [inbox |-> box, escaped |-> FALSE]

\* server.js:176, 199  viewingClients.forEach, in insertion order; an
\* exception leaving an iteration ends the loop.
RECURSIVE forEachClient(_, _, _)
forEachClient(clients, box, message) ==
    IF clients = << >>
    THEN [inbox |-> box, escaped |-> FALSE]
    ELSE LET r == TrySend(Head(clients), box, message)
         IN  IF r.escaped THEN r
             ELSE forEachClient(Tail(clients), r.inbox, message)

\* The relay state a handler starts on; pub collects what it broadcasts.
Relay ==
    [as |-> activeStreams, sb |-> streamBuffers, vc |-> viewingClients,
     inbox |-> inbox, pub |-> << >>, uncaught |-> uncaught]

\* A broadcast that also deletes from the set the viewers it could not
\* deliver to.
BroadcastDropsFailed(r, message) ==
    LET f == forEachClient(r.vc, r.inbox, message)
    IN  [r EXCEPT !.inbox = f.inbox,
                  !.pub = Append(@, message),
                  !.uncaught = @ \/ f.escaped,
                  !.vc = SelectSeq(@, LAMBDA v : readyState[v] = "OPEN" /\ ~sendThrows[v])]

\* A broadcast that also keeps the message for the viewer sockets that are
\* not in the set, to be delivered when they connect.
BroadcastKeepsForLater(r, message) ==
    LET f == forEachClient(r.vc, r.inbox, message)
    IN  [r EXCEPT !.inbox = [v \in Viewers |->
                                IF \E i \in 1 .. Len(r.vc) : r.vc[i] = v
                                THEN f.inbox[v]
                                ELSE Append(f.inbox[v], message)],
                  !.pub = Append(@, message),
                  !.uncaught = @ \/ f.escaped]

\* server.js:167-185, 187-208  a broadcast of one message.
Broadcast(r, message) ==
    LET f == forEachClient(r.vc, r.inbox, message)
    IN  [r EXCEPT !.inbox = f.inbox,
                  !.pub = Append(@, message),
                  !.uncaught = @ \/ f.escaped]

\* server.js:167-185
broadcastFrame(r, clientId, streamType, frameData) ==
    Broadcast(r, FrameMessage(clientId, streamType, frameData))

\* server.js:187-208
broadcastStreamUpdate(r) ==
    Broadcast(r, StreamsMessage(r.as))

\* sendStreamList with its readyState test inverted.
sendStreamListWhenNotOpen(r, ws) ==
    IF readyState'[ws] # "OPEN"
    THEN [r EXCEPT !.inbox[ws] = Append(@, StreamsMessage(r.as))]
    ELSE r

\* server.js:210-225  no try/catch around the send.
sendStreamList(r, ws) ==
    IF readyState'[ws] = "OPEN"
    THEN IF sendThrows[ws]
         THEN [r EXCEPT !.uncaught = TRUE]
         ELSE [r EXCEPT !.inbox[ws] = Append(@, StreamsMessage(r.as))]
    ELSE r

(***************************************************************************)
(* Registry                                                                *)
(***************************************************************************)

has(as, clientId) ==
    \E i \in 1 .. Len(as) : as[i].clientId = clientId

IndexOf(as, clientId) ==
    CHOOSE i \in 1 .. Len(as) : as[i].clientId = clientId

\* activeStreams.get(clientId)[streamType] = value
SetFlag(as, clientId, streamType, value) ==
    [i \in 1 .. Len(as) |->
        IF as[i].clientId = clientId
        THEN IF streamType = "screen"
             THEN [as[i] EXCEPT !.screen = value]
             ELSE [as[i] EXCEPT !.webcam = value]
        ELSE as[i]]

\* activeStreams.delete(clientId)
Delete(as, clientId) ==
    SelectSeq(as, LAMBDA e : e.clientId # clientId)

\* registerStream without its broadcast of the stream list.
registerStreamSilently(r, clientId, streamType) ==
    LET as1 == IF ~has(r.as, clientId)
               THEN Append(r.as, [clientId |-> clientId, screen |-> FALSE, webcam |-> FALSE])
               ELSE r.as
    IN  [r EXCEPT !.as = SetFlag(as1, clientId, streamType, TRUE),
                  !.sb[bufferKey(clientId, streamType)] = FreshState]

\* server.js:93-101
registerStream(r, clientId, streamType) ==
    LET as1 == IF ~has(r.as, clientId)
               THEN Append(r.as, [clientId |-> clientId, screen |-> FALSE, webcam |-> FALSE])
               ELSE r.as
        as2 == SetFlag(as1, clientId, streamType, TRUE)
    IN  broadcastStreamUpdate(
            [r EXCEPT !.as = as2,
                      !.sb[bufferKey(clientId, streamType)] = FreshState])

\* The flag cleared, the entry kept whatever its flags.
ClearFlagKeepsEntry(as, clientId, streamType) ==
    SetFlag(as, clientId, streamType, FALSE)

\* The entry deleted whatever its other flag.
ClearFlagDeletesEntry(as, clientId, streamType) ==
    Delete(as, clientId)

\* server.js:132-135  the flag cleared, the entry deleted when both are.
ClearFlag(as, clientId, streamType) ==
    LET as1 == SetFlag(as, clientId, streamType, FALSE)
        e   == as1[IndexOf(as1, clientId)]
    IN  IF ~e.screen /\ ~e.webcam THEN Delete(as1, clientId) ELSE as1

\* unregisterStream broadcasting the stream list before it updates it.
unregisterStreamBroadcastsFirst(r, clientId, streamType) ==
    LET b == broadcastStreamUpdate(r)
        as1 == IF has(r.as, clientId)
               THEN ClearFlag(r.as, clientId, streamType)
               ELSE r.as
    IN  [b EXCEPT !.as = as1,
                  !.sb[bufferKey(clientId, streamType)] = NoState]

\* unregisterStream without the deletion of the decode state.
unregisterStreamKeepsBuffer(r, clientId, streamType) ==
    LET as1 == IF has(r.as, clientId)
               THEN ClearFlag(r.as, clientId, streamType)
               ELSE r.as
    IN  broadcastStreamUpdate([r EXCEPT !.as = as1])

\* server.js:128-139
unregisterStream(r, clientId, streamType) ==
    LET as1 == IF has(r.as, clientId)
               THEN ClearFlag(r.as, clientId, streamType)
               ELSE r.as
    IN  broadcastStreamUpdate(
            [r EXCEPT !.as = as1,
                      !.sb[bufferKey(clientId, streamType)] = NoState])

\* The frames of a chunk broadcast last first.
RECURSIVE broadcastFramesReversed(_, _, _, _)
broadcastFramesReversed(r, clientId, streamType, frames) ==
    IF frames = << >> THEN r
    ELSE broadcastFrame(broadcastFramesReversed(r, clientId, streamType, Tail(frames)),
                        clientId, streamType, Head(frames))

\* server.js:119  broadcastFrame for each frame the loop extracts, in order.
RECURSIVE broadcastFrames(_, _, _, _)
broadcastFrames(r, clientId, streamType, frames) ==
    IF frames = << >> THEN r
    ELSE broadcastFrames(broadcastFrame(r, clientId, streamType, Head(frames)),
                         clientId, streamType, Tail(frames))

\* feedChunk publishing its frames as screen frames whatever the kind.
feedChunkTagsScreen(r, clientId, streamType, chunk) ==
    LET key == bufferKey(clientId, streamType)
        state == r.sb[key]
        d == Decode(state, chunk)
    IN  IF state = NoState THEN r
        ELSE broadcastFrames([r EXCEPT !.sb[key] = d.state],
                             clientId, "screen", d.frames)

\* server.js:103-126
feedChunk(r, clientId, streamType, chunk) ==
    LET key == bufferKey(clientId, streamType)
        state == r.sb[key]
        d == Decode(state, chunk)
    IN  IF state = NoState THEN r
        ELSE broadcastFrames([r EXCEPT !.sb[key] = d.state],
                             clientId, streamType, d.frames)

\* The handler's effect on the relay state.
Commit(r) ==
    /\ activeStreams' = r.as
    /\ streamBuffers' = r.sb
    /\ viewingClients' = r.vc
    /\ inbox' = r.inbox
    /\ published' = r.pub
    /\ uncaught' = r.uncaught

\* The relay as the process starts: server.js:46, 87, 148.
EmptyRelay ==
    [as |-> << >>, sb |-> [k \in Keys |-> NoState], vc |-> << >>,
     inbox |-> [v \in Viewers |-> << >>], pub |-> << >>, uncaught |-> FALSE]

(***************************************************************************)
(* DecoderSpec: one registered stream, fed a byte stream in every chunking *)
(***************************************************************************)

\* The stream fed is a sequence of items: an encoded frame, or a bare
\* 4-byte prefix declaring one byte more than the maximum.
Payloads(n) ==
    UNION { [1 .. k -> PayloadBytes] : k \in 0 .. n }

Items(n) ==
    { [oversize |-> FALSE, payload |-> p] : p \in Payloads(n - PrefixLen) }
        \cup { [oversize |-> TRUE, payload |-> << >>] }

ItemBytes(it) ==
    IF it.oversize THEN putInt(MaxFrameLen + 1) ELSE EncodeFrame(it.payload)

\* The sequences of items whose bytes number at most n.
RECURSIVE ItemSeqs(_)
ItemSeqs(n) ==
    IF n < PrefixLen THEN { << >> }
    ELSE { << >> } \cup
         UNION { { << it >> \o s : s \in ItemSeqs(n - Len(ItemBytes(it))) } :
                 it \in Items(n) }

RECURSIVE Flatten(_)
Flatten(its) ==
    IF its = << >> THEN << >> ELSE ItemBytes(Head(its)) \o Flatten(Tail(its))

\* The bytes of the stream fed.
Stream == Flatten(items)

DecClient == "a"

DecType == "screen"

DecKey == bufferKey(DecClient, DecType)

IdleConn ==
    [phase |-> "idle", clientId |-> "", streamType |-> "screen", body |-> << >>,
     pos |-> 0, signals |-> << >>, unregs |-> 0, status |-> 0]

\* The stream is registered (server.js:58) and nothing has been fed.
DecInit ==
    /\ items \in ItemSeqs(MaxStream)
    /\ pos = 0
    /\ reads = << >>
    /\ out = << >>
    /\ page = BlankPage
    /\ readyState = [v \in Viewers |-> "NONE"]
    /\ sendThrows = [v \in Viewers |-> FALSE]
    /\ conns = [c \in ConnIds |-> IdleConn]
    /\ LET r == registerStream(EmptyRelay, DecClient, DecType)
       IN  /\ activeStreams = r.as
           /\ streamBuffers = r.sb
           /\ viewingClients = r.vc
           /\ inbox = r.inbox
           /\ published = r.pub
           /\ uncaught = r.uncaught

\* The payloads (base64) of the frame messages of a log, in order.
FrameData(log) ==
    LET fs == SelectSeq(log, LAMBDA m : m.type = "frame")
    IN  [i \in 1 .. Len(fs) |-> fs[i].data]

\* server.js:59  a 'data' event with the next n bytes of the stream.
DecFeed(n) ==
    LET chunk == SubSeq(Stream, pos + 1, pos + n)
        d == Decode(streamBuffers[DecKey], chunk)
    IN  /\ pos + n <= Len(Stream)
        /\ Commit(feedChunk(Relay, DecClient, DecType, chunk))
        /\ pos' = pos + n
        /\ reads' = reads \o
               [i \in 1 .. Len(d.reads) |->
                   [len |-> d.reads[i].len, at |-> (pos + n) - d.reads[i].buffered,
                    from |-> pos, upto |-> pos + n]]
        /\ out' = out \o FrameData(published')
        /\ UNCHANGED << page, readyState, sendThrows, conns, items >>

DecNext ==
    \E n \in 1 .. MaxStream : DecFeed(n)

DecoderSpec == DecInit /\ [][DecNext]_vars

\* The frames of the stream fed, when it holds frames only.
FramesOnly(its) ==
    \A i \in 1 .. Len(its) : ~its[i].oversize

ItemData(its) ==
    [i \in 1 .. Len(its) |-> toBase64(its[i].payload)]

\* What the whole stream publishes when fed as one single chunk to a
\* freshly registered stream.
SingleChunkData ==
    FrameData(feedChunk(registerStream(EmptyRelay, DecClient, DecType),
                        DecClient, DecType, Stream).pub)

(***************************************************************************)
(* Spec: the relay                                                         *)
(***************************************************************************)

\* req.query.clientId of a request without the parameter (or with an empty
\* one): falsy at server.js:53, 71.
MissingClientId == ""

\* The request bodies the producers send, each as the chunks the transport
\* delivers it in: the frames <<7>> and <<8, 9>>, the first chunk ending
\* inside the first length prefix.
Bodies ==
    { << << 0, 0 >>, << 0, 1, 7 >> \o EncodeFrame(<< 8, 9 >>) >> }

Init ==
    /\ activeStreams = EmptyRelay.as
    /\ streamBuffers = EmptyRelay.sb
    /\ viewingClients = EmptyRelay.vc
    /\ inbox = EmptyRelay.inbox
    /\ published = EmptyRelay.pub
    /\ uncaught = EmptyRelay.uncaught
    /\ readyState = [v \in Viewers |-> "NONE"]
    /\ sendThrows = [v \in Viewers |-> FALSE]
    /\ conns = [c \in ConnIds |-> IdleConn]
    /\ items = << >>
    /\ pos = 0
    /\ reads = << >>
    /\ out = << >>
    /\ page = BlankPage

\* The events delivered so far: per request its arrival, its 'data' events
\* and its terminal event; per viewer socket its connection and the first of
\* its 'error', its closing handshake and its 'close'.
RECURSIVE RequestEvents(_)
RequestEvents(n) ==
    IF n = 0 THEN 0
    ELSE conns[n].pos
           + (IF conns[n].phase = "idle" THEN 0
              ELSE IF conns[n].phase = "terminated" THEN 2 ELSE 1)
           + RequestEvents(n - 1)

RECURSIVE ViewerEvents(_)
ViewerEvents(n) ==
    IF n = 0 THEN 0
    ELSE (IF readyState[n] = "NONE" THEN 0
          ELSE IF readyState[n] = "OPEN" /\ ~sendThrows[n] THEN 1 ELSE 2)
           + ViewerEvents(n - 1)

Events ==
    RequestEvents(MaxConns) + ViewerEvents(MaxViewers)

\* Whether one more event may be delivered.
MoreEvents ==
    Events < MaxEvents

\* The clientIds are opaque to the relay, which only compares them: the
\* producers take them in a fixed order, a request carrying either a
\* clientId already seen or the first one not yet seen.
KnownClientIds ==
    { conns[c].clientId : c \in ConnIds } \ {MissingClientId}

FreshClientId ==
    IF "a" \in KnownClientIds THEN "b" ELSE "a"

Live(c) ==
    conns[c].phase = "streaming"

\* The test that takes no clientId for one.
MissingNeverDetected(clientId) ==
    FALSE

\* server.js:53, 71  !clientId
Missing(clientId) ==
    clientId = MissingClientId

\* server.js:50-66, 68-84  POST /stream/{streamType}?clientId=...
Request(c, clientId, streamType, body) ==
    /\ conns[c].phase = "idle"
    /\ MoreEvents
    /\ \A d \in ConnIds : d < c => conns[d].phase # "idle"
    /\ clientId \in KnownClientIds \cup {FreshClientId, MissingClientId}
    /\ IF Missing(clientId)
       THEN /\ conns' = [conns EXCEPT ![c] =
                   [@ EXCEPT !.phase = "rejected", !.streamType = streamType,
                             !.status = 400]]
            /\ Commit(Relay)
       ELSE /\ Commit(registerStream(Relay, clientId, streamType))
            /\ conns' = [conns EXCEPT ![c] =
                   [@ EXCEPT !.phase = "streaming", !.clientId = clientId,
                             !.streamType = streamType, !.body = body,
                             !.status = 200]]
    /\ UNCHANGED << page, readyState, sendThrows, items, pos, reads, out >>

\* server.js:59, 77  'data': the next chunk of the body.
ReqData(c) ==
    /\ Live(c)
    /\ MoreEvents
    /\ conns[c].pos < Len(conns[c].body)
    /\ Commit(feedChunk(Relay, conns[c].clientId, conns[c].streamType,
                        conns[c].body[conns[c].pos + 1]))
    /\ conns' = [conns EXCEPT ![c].pos = @ + 1]
    /\ UNCHANGED << page, readyState, sendThrows, items, pos, reads, out >>

\* server.js:60, 78  'end': the whole body has been delivered.
ReqEnd(c) ==
    /\ Live(c)
    /\ MoreEvents
    /\ conns[c].pos = Len(conns[c].body)
    /\ Commit(unregisterStream(Relay, conns[c].clientId, conns[c].streamType))
    /\ conns' = [conns EXCEPT ![c] =
           [@ EXCEPT !.phase = "terminated", !.signals = Append(@, "end"),
                     !.unregs = @ + 1]]
    /\ UNCHANGED << page, readyState, sendThrows, items, pos, reads, out >>

\* server.js:61-64, 79-82  'error'.
ReqError(c) ==
    /\ Live(c)
    /\ MoreEvents
    /\ Commit(unregisterStream(Relay, conns[c].clientId, conns[c].streamType))
    /\ conns' = [conns EXCEPT ![c] =
           [@ EXCEPT !.phase = "terminated", !.signals = Append(@, "error"),
                     !.unregs = @ + 1]]
    /\ UNCHANGED << page, readyState, sendThrows, items, pos, reads, out >>

\* The transport closes with neither 'end' nor 'error' delivered (the
\* producer went away mid-body): 'close' on the request.  server.js:58-64,
\* 76-82 register no handler for it.  (A 'close' that follows 'end' or
\* 'error' runs no handler either and changes nothing: it is no step.)
ReqClose(c) ==
    /\ Live(c)
    /\ MoreEvents
    /\ conns' = [conns EXCEPT ![c] =
           [@ EXCEPT !.phase = "terminated", !.signals = Append(@, "close")]]
    /\ Commit(Relay)
    /\ UNCHANGED << page, readyState, sendThrows, items, pos, reads, out >>

\* server.js:150-165  'connection' on the viewers' WebSocket server.
ViewConnect(ws) ==
    /\ readyState[ws] = "NONE"
    /\ MoreEvents
    /\ \A v \in Viewers : v < ws => readyState[v] # "NONE"
    /\ readyState' = [readyState EXCEPT ![ws] = "OPEN"]
    /\ Commit(sendStreamList([Relay EXCEPT !.vc = Append(@, ws)], ws))
    /\ UNCHANGED << page, sendThrows, conns, items, pos, reads, out >>

\* The closing handshake of a viewer socket starts: readyState CLOSING.
ViewClosing(ws) ==
    /\ readyState[ws] = "OPEN"
    /\ readyState' = [readyState EXCEPT ![ws] = "CLOSING"]
    /\ MoreEvents
    /\ sendThrows' = [sendThrows EXCEPT ![ws] = FALSE]
    /\ Commit(Relay)
    /\ UNCHANGED << page, conns, items, pos, reads, out >>

\* server.js:162-164  'error' on a viewer socket: logged; its sends throw
\* from then on.
ViewError(ws) ==
    /\ readyState[ws] = "OPEN"
    /\ ~sendThrows[ws]
    /\ MoreEvents
    /\ sendThrows' = [sendThrows EXCEPT ![ws] = TRUE]
    /\ Commit(Relay)
    /\ UNCHANGED << page, readyState, conns, items, pos, reads, out >>

\* The 'close' handler emptying the viewer set.
ViewCloseClearsAll(ws) ==
    /\ readyState[ws] \in {"OPEN", "CLOSING"}
    /\ (readyState[ws] = "OPEN" /\ ~sendThrows[ws]) => MoreEvents
    /\ readyState' = [readyState EXCEPT ![ws] = "CLOSED"]
    /\ sendThrows' = [sendThrows EXCEPT ![ws] = FALSE]
    /\ Commit([Relay EXCEPT !.vc = << >>])
    /\ UNCHANGED << page, conns, items, pos, reads, out >>

\* server.js:157-160  'close' on a viewer socket.
ViewClose(ws) ==
    /\ readyState[ws] \in {"OPEN", "CLOSING"}
    /\ (readyState[ws] = "OPEN" /\ ~sendThrows[ws]) => MoreEvents
    /\ readyState' = [readyState EXCEPT ![ws] = "CLOSED"]
    /\ sendThrows' = [sendThrows EXCEPT ![ws] = FALSE]
    /\ Commit([Relay EXCEPT !.vc = SelectSeq(@, LAMBDA v : v # ws)])
    /\ UNCHANGED << page, conns, items, pos, reads, out >>

Next ==
    \/ \E c \in ConnIds, id \in ClientIds \cup {MissingClientId},
          t \in StreamTypes, b \in Bodies : Request(c, id, t, b)
    \/ \E c \in ConnIds : ReqData(c)
    \/ \E c \in ConnIds : ReqEnd(c)
    \/ \E c \in ConnIds : ReqError(c)
    \/ \E c \in ConnIds : ReqClose(c)
    \/ \E ws \in Viewers : ViewConnect(ws)
    \/ \E ws \in Viewers : ViewClosing(ws)
    \/ \E ws \in Viewers : ViewError(ws)
    \/ \E ws \in Viewers : ViewClose(ws)

Spec == Init /\ [][Next]_vars

(***************************************************************************)
(* Properties of the decoder (DecoderSpec)                                 *)
(***************************************************************************)

\* C1: chunk-invariance.  Once a stream of encoded frames has been fed
\* whole, in whatever chunks, the frame payloads published are those its
\* single-chunk feed publishes.
C1_ChunkInvariance ==
    (FramesOnly(items) /\ pos = Len(Stream)) => out = SingleChunkData

\* C4: a zero-length frame.  Once the 4-byte prefix declaring L = 0 that
\* opens the stream has been fed, exactly one frame, with an empty payload,
\* has been published for it, and the frames after it are published as they
\* arrive whole.
C4_ZeroLengthFrame ==
    (/\ FramesOnly(items)
     /\ Len(items) >= 1
     /\ items[1].payload = << >>
     /\ pos >= PrefixLen)
        => /\ Len(out) >= 1
           /\ out[1] = << >>
           /\ (pos = PrefixLen => Len(out) = 1 /\ streamBuffers[DecKey] = FreshState)
           /\ (pos = Len(Stream) => Len(out) = Len(items))

\* The length prefixes read so far that declared more than the maximum.
OversizeReads == { i \in 1 .. Len(reads) : reads[i].len > MaxFrameLen }

\* C5: a declared length above the maximum.  For every length prefix the
\* decoder has read that declared L > 10 MiB: no frame is published for it
\* (frames number at most the other prefixes read), the stream stays
\* registered with its decode state, and decoding resumes at the byte right
\* after the prefix: the next prefix read starts there, and until one is
\* read the decoder awaits a prefix with exactly the bytes fed after the
\* oversized prefix in its buffer.
C5_OversizeResync ==
    /\ Len(out) <= Len(reads) - Cardinality(OversizeReads)
    /\ \A i \in OversizeReads :
        /\ streamBuffers[DecKey] # NoState
        /\ has(activeStreams, DecClient)
        /\ activeStreams[IndexOf(activeStreams, DecClient)].screen
        /\ IF i < Len(reads)
           THEN reads[i + 1].at = reads[i].at + PrefixLen
           ELSE streamBuffers[DecKey] =
                    [buf |-> SubSeq(Stream, reads[i].at + PrefixLen + 1, pos),
                     need |-> PrefixLen, payloadLen |-> 0]

\* C5 witness: an oversized prefix has been read, the bytes after it have
\* been read as the prefix of a frame, and that frame has been published.
C5_Witness ==
    \E i \in OversizeReads :
        /\ i < Len(reads)
        /\ reads[i + 1].at = reads[i].at + PrefixLen
        /\ reads[i + 1].len \in 1 .. MaxFrameLen
        /\ Len(out) >= 1

(***************************************************************************)
(* Properties of the relay (Spec)                                          *)
(***************************************************************************)

Member(seq, x) ==
    \E i \in 1 .. Len(seq) : seq[i] = x

\* A viewer to which a send succeeds: its channel is open and not broken.
Healthy(v) ==
    readyState[v] = "OPEN" /\ ~sendThrows[v]

\* The flag of streamType in the registry entry of clientId, FALSE when
\* there is no entry.
Flag(as, clientId, streamType) ==
    \E i \in 1 .. Len(as) :
        /\ as[i].clientId = clientId
        /\ IF streamType = "screen" THEN as[i].screen ELSE as[i].webcam

\* C2: exactly-once deregistration.  Every producer connection that was
\* registered and has terminated, by 'end', by 'error' or by an abrupt
\* close, has run unregisterStream exactly once.
C2_ExactlyOnceDeregistration ==
    \A c \in ConnIds : conns[c].phase = "terminated" => conns[c].unregs = 1

\* C3: cleanup on every termination path.  When a registered connection
\* has terminated, by whichever event, and no other connection for the same
\* clientId and kind is streaming, the kind's flag is cleared in the
\* registry and the decode state of the key is removed.
C3_CleanupOnTermination ==
    \A c \in ConnIds :
        (/\ conns[c].phase = "terminated"
         /\ \A d \in ConnIds :
                Live(d) => \/ conns[d].clientId # conns[c].clientId
                           \/ conns[d].streamType # conns[c].streamType)
            => /\ ~Flag(activeStreams, conns[c].clientId, conns[c].streamType)
               /\ streamBuffers[bufferKey(conns[c].clientId, conns[c].streamType)] = NoState

\* C6: viewer failure isolation.  In every step, whatever the other
\* viewers' channels do, no exception leaves the handler and every viewer in
\* the set whose channel is open and takes the send receives each message
\* the handler published exactly once, in order (so all N frames of a batch).
C6_ViewerFailureIsolation ==
    [][/\ ~uncaught'
       /\ \A v \in Viewers :
            (Member(viewingClients, v) /\ Healthy(v))
                => inbox'[v] = inbox[v] \o published']_vars

\* C6 witness: a batch of two frames has been published while a viewer
\* earlier in the set had a broken or closing channel, and a later viewer
\* has received both frames.
C6_Witness ==
    \E i, j \in 1 .. Len(viewingClients) :
        LET v == viewingClients[i]
            w == viewingClients[j]
        IN  /\ i < j
            /\ ~Healthy(v)
            /\ Healthy(w)
            /\ Len(published) = 2
            /\ published[1].type = "frame"
            /\ published[2].type = "frame"
            /\ Len(inbox[w]) >= 2
            /\ SubSeq(inbox[w], Len(inbox[w]) - 1, Len(inbox[w])) = published
            /\ \A k \in 1 .. Len(inbox[v]) : inbox[v][k].type # "frame"

C8_RegistryEntryInvariant ==
    [][/\ \A i \in 1 .. Len(activeStreams') :
            activeStreams'[i].screen \/ activeStreams'[i].webcam
       /\ \A i, j \in 1 .. Len(activeStreams') :
            activeStreams'[i].clientId = activeStreams'[j].clientId => i = j
       /\ \A c \in ConnIds :
            conns'[c].unregs > conns[c].unregs
                => /\ ~Flag(activeStreams', conns[c].clientId, conns[c].streamType)
                   /\ (\A t \in StreamTypes \ {conns[c].streamType} :
                          ~Flag(activeStreams, conns[c].clientId, t))
                        => ~has(activeStreams', conns[c].clientId)]_vars

\* C8 witness: a connection registered a kind and unregistered it, and the
\* registry holds no entry for its clientId while it holds another client's.
C8_Witness ==
    \E c \in ConnIds :
        /\ conns[c].phase = "terminated"
        /\ conns[c].unregs = 1
        /\ ~has(activeStreams, conns[c].clientId)
        /\ activeStreams # << >>

\* The step in which viewer ws connects.
Connects(ws) ==
    readyState[ws] = "NONE" /\ readyState'[ws] = "OPEN"

\* C9: snapshot on connect.  The step in which a viewer connects adds it
\* to the viewer set and sends it, as its first message, a 'streams' message
\* listing exactly the registry's clientIds with their flags; and the first
\* message of a viewer stays its first message, so no frame precedes it.
C9_SnapshotOnConnect ==
    [][\A ws \in Viewers :
          /\ Connects(ws) =>
                /\ Member(viewingClients', ws)
                /\ Len(inbox'[ws]) = 1
                /\ inbox'[ws][1].type = "streams"
                /\ Len(inbox'[ws][1].streams) = Len(activeStreams)
                /\ \A i \in 1 .. Len(activeStreams) :
                      /\ inbox'[ws][1].streams[i].clientId = activeStreams[i].clientId
                      /\ inbox'[ws][1].streams[i].hasScreen = activeStreams[i].screen
                      /\ inbox'[ws][1].streams[i].hasWebcam = activeStreams[i].webcam
          /\ ~Connects(ws) =>
                /\ (inbox[ws] = << >> => inbox'[ws] = << >>)
                /\ (inbox[ws] # << >> =>
                        inbox'[ws] # << >> /\ inbox'[ws][1] = inbox[ws][1])]_vars

\* C9 witness: a viewer connected while two producers were active: its
\* first message lists both, and a frame message follows it.
C9_Witness ==
    \E ws \in Viewers :
        /\ Len(inbox[ws]) >= 2
        /\ inbox[ws][1].type = "streams"
        /\ Len(inbox[ws][1].streams) = 2
        /\ \E k \in 2 .. Len(inbox[ws]) : inbox[ws][k].type = "frame"

\* C10: presence broadcast on every change.  In every step that changes
\* the registry, every viewer in the set whose channel is open and takes the
\* send receives exactly one message: a 'streams' message listing the
\* registry as it is after the change.
C10_PresenceBroadcastOnChange ==
    [][activeStreams' # activeStreams =>
          \A v \in Viewers :
              (Member(viewingClients, v) /\ Healthy(v)) =>
                  /\ Len(inbox'[v]) = Len(inbox[v]) + 1
                  /\ SubSeq(inbox'[v], 1, Len(inbox[v])) = inbox[v]
                  /\ LET m == inbox'[v][Len(inbox'[v])]
                     IN  /\ m.type = "streams"
                         /\ Len(m.streams) = Len(activeStreams')
                         /\ \A i \in 1 .. Len(activeStreams') :
                              /\ m.streams[i].clientId = activeStreams'[i].clientId
                              /\ m.streams[i].hasScreen = activeStreams'[i].screen
                              /\ m.streams[i].hasWebcam = activeStreams'[i].webcam]_vars

\* C10 witness: a viewer has received the snapshot on connect, then the
\* update of a registration and the update of the deregistration that
\* emptied the registry again.
C10_Witness ==
    \E v \in Viewers :
        /\ Healthy(v)
        /\ Len(inbox[v]) >= 3
        /\ inbox[v][Len(inbox[v])].type = "streams"
        /\ inbox[v][Len(inbox[v])].streams = << >>
        /\ inbox[v][Len(inbox[v]) - 1].type = "streams"
        /\ inbox[v][Len(inbox[v]) - 1].streams # << >>
        /\ activeStreams = << >>

\* C11: a missing clientId is rejected without side effects.  The step in
\* which a request with no (or an empty) clientId arrives answers it with
\* status 400, leaves the registry, the decode buffers and the viewer set as
\* they were, and sends no message to any viewer; the request is never
\* registered: it stays rejected, with no further step of its own.
C11_MissingClientIdRejected ==
    [][\A c \in ConnIds :
          /\ (/\ conns[c].phase = "idle"
              /\ conns'[c].phase # "idle"
              /\ conns'[c].clientId = MissingClientId)
                => /\ conns'[c].phase = "rejected"
                   /\ conns'[c].status = 400
                   /\ activeStreams' = activeStreams
                   /\ streamBuffers' = streamBuffers
                   /\ viewingClients' = viewingClients
                   /\ inbox' = inbox
                   /\ published' = << >>
          /\ conns[c].phase = "rejected" => conns'[c] = conns[c]]_vars

\* C11 witness: a request without clientId has been rejected with status
\* 400 while a producer was registered and a viewer was connected.
C11_Witness ==
    \E c \in ConnIds :
        /\ conns[c].phase = "rejected"
        /\ conns[c].status = 400
        /\ activeStreams # << >>
        /\ \E v \in Viewers : Member(viewingClients, v) /\ Healthy(v)

\* C12: success response timing.  A request answered with status 200 has
\* ended normally: the response is sent at the 'end' event of the body, not
\* before it, and not when the connection terminates by error or is closed.
C12_SuccessResponseOnEnd ==
    \A c \in ConnIds :
        /\ conns[c].status = 200 => conns[c].signals = << "end" >>
        /\ conns[c].signals = << "end" >> => conns[c].status = 200

\* The decode state of a decoder of its own after the first k chunks of a
\* body, and the frames it extracts from the k-th chunk.
RECURSIVE OwnState(_, _)
OwnState(body, k) ==
    IF k = 0 THEN FreshState ELSE Decode(OwnState(body, k - 1), body[k]).state

OwnFrames(body, k) ==
    Decode(OwnState(body, k - 1), body[k]).frames

FrameMessages(clientId, streamType, frames) ==
    [i \in 1 .. Len(frames) |-> FrameMessage(clientId, streamType, frames[i])]

\* C13: separate decode state per connection.  Each 'data' event of a
\* producer connection publishes exactly the frames that a decoder owned by
\* that connection alone extracts from its chunk, whatever other connections
\* with the same clientId and kind have registered, fed or terminated in
\* between.
C13_SeparateDecodeState ==
    [][\A c \in ConnIds :
          (Live(c) /\ conns'[c].pos = conns[c].pos + 1)
              => published' =
                    FrameMessages(conns[c].clientId, conns[c].streamType,
                                  OwnFrames(conns[c].body, conns'[c].pos))]_vars

\* The frames feedChunk extracts, in the order of their bytes in the stream,
\* from the chunk that the next 'data' event of connection c delivers.
Extracted(c) ==
    LET state == streamBuffers[bufferKey(conns[c].clientId, conns[c].streamType)]
    IN  IF state = NoState THEN << >>
        ELSE Decode(state, conns[c].body[conns[c].pos + 1]).frames

\* C14: per-connection FIFO.  Each 'data' event of a producer connection
\* publishes the frames the decoder extracts from its chunk in the order of
\* extraction, and every viewer in the set whose channel is open and takes
\* the send receives them in that order after all it had received; no step,
\* of whichever producer or viewer, reorders or removes what a viewer has
\* received.
C14_PerConnectionFifo ==
    [][/\ \A c \in ConnIds :
            (Live(c) /\ conns'[c].pos = conns[c].pos + 1) =>
                LET msgs == FrameMessages(conns[c].clientId, conns[c].streamType,
                                          Extracted(c))
                IN  /\ published' = msgs
                    /\ \A v \in Viewers :
                         (Member(viewingClients, v) /\ Healthy(v))
                             => inbox'[v] = inbox[v] \o msgs
       /\ \A v \in Viewers :
            /\ Len(inbox'[v]) >= Len(inbox[v])
            /\ SubSeq(inbox'[v], 1, Len(inbox[v])) = inbox[v]]_vars

\* C14 witness: a viewer has received, in their order in the byte stream,
\* the two frames of one chunk of a producer, behind the presence messages
\* of that producer and of another one that is streaming too.
C14_Witness ==
    \E v \in Viewers, c, d \in ConnIds :
        /\ Healthy(v)
        /\ Live(c) /\ Live(d)
        /\ conns[c].clientId # conns[d].clientId
        /\ conns[c].pos = 2
        /\ conns[d].pos >= 1
        /\ Len(inbox[v]) >= 4
        /\ LET n == Len(inbox[v])
           IN  /\ inbox[v][n - 1] = FrameMessage(conns[c].clientId, conns[c].streamType, << 7 >>)
               /\ inbox[v][n] = FrameMessage(conns[c].clientId, conns[c].streamType, << 8, 9 >>)

\* Whether a 'streams' message lists streamType of clientId as active.
Listed(m, clientId, streamType) ==
    \E i \in 1 .. Len(m.streams) :
        /\ m.streams[i].clientId = clientId
        /\ IF streamType = "screen" THEN m.streams[i].hasScreen
                                    ELSE m.streams[i].hasWebcam

\* In a log of messages, every frame message comes behind a 'streams'
\* message, and the last 'streams' message before it lists its clientId and
\* kind as active.
PresenceBeforeFrames(log) ==
    \A k \in 1 .. Len(log) :
        log[k].type = "frame" =>
            \E j \in 1 .. k - 1 :
                /\ log[j].type = "streams"
                /\ Listed(log[j], log[k].clientId, log[k].streamType)
                /\ \A i \in j + 1 .. k - 1 : log[i].type = "frame"

C16_NoBufferingOfFrames ==
    [][/\ (/\ viewingClients = << >>
           /\ \E k \in 1 .. Len(published') : published'[k].type = "frame")
            => /\ uncaught' = uncaught
               /\ activeStreams' = activeStreams
               /\ viewingClients' = viewingClients
               /\ inbox' = inbox
               /\ \A key \in Keys :
                    streamBuffers'[key] # streamBuffers[key]
                        => /\ key[1] = published'[1].clientId
                           /\ key[2] = published'[1].streamType
       /\ \A v \in Viewers :
            ~Member(viewingClients, v) =>
                /\ Len(inbox'[v]) >= Len(inbox[v])
                /\ \A k \in Len(inbox[v]) + 1 .. Len(inbox'[v]) :
                     inbox'[v][k].type # "frame"
       /\ \A v \in Viewers : readyState'[v] = "NONE" => inbox'[v] = << >>]_vars

\* C16 witness: the one producer there is has delivered its two frames, the
\* one viewer there is has connected after that: it holds the stream list
\* naming the producer, and nothing else.
C16_Witness ==
    \E v \in Viewers, c \in ConnIds :
        /\ Live(c)
        /\ conns[c].pos = 2
        /\ \A d \in ConnIds \ {c} : conns[d].phase = "idle"
        /\ \A w \in Viewers \ {v} : readyState[w] = "NONE"
        /\ Healthy(v)
        /\ inbox[v] = << StreamsMessage(activeStreams) >>
        /\ activeStreams # << >>

\* The snapshot entry of a client with the given flags.
SnapshotEntry(clientId, screen, webcam) ==
    [clientId |-> clientId, hasScreen |-> screen, hasWebcam |-> webcam]

\* C17: deactivating one kind leaves the other untouched.  A step in which
\* a connection runs unregisterStream(id, kind) changes no other flag: not
\* the other kind's of id, not any other client's, whose entries stay as and
\* where they were; and when the other kind of id is active the 'streams'
\* message it publishes lists id with that kind active and this one not:
\* after register(id, screen), register(id, webcam), unregister(id, screen)
\* the entry is {hasScreen: false, hasWebcam: true}.
C17_OtherKindUntouched ==
    [][\A c \in ConnIds :
          conns'[c].unregs > conns[c].unregs =>
              LET id == conns[c].clientId
                  t  == conns[c].streamType
              IN  /\ \A id2 \in ClientIds, t2 \in StreamTypes :
                       (id2 # id \/ t2 # t)
                           => Flag(activeStreams', id2, t2) = Flag(activeStreams, id2, t2)
                  /\ SelectSeq(activeStreams', LAMBDA e : e.clientId # id)
                       = SelectSeq(activeStreams, LAMBDA e : e.clientId # id)
                  /\ \A t2 \in StreamTypes \ {t} :
                       Flag(activeStreams, id, t2) =>
                           /\ Len(published') = 1
                           /\ published'[1].type = "streams"
                           /\ \E i \in 1 .. Len(published'[1].streams) :
                                published'[1].streams[i] =
                                    SnapshotEntry(id, t2 = "screen", t2 = "webcam")]_vars

\* C17 witness: a viewer has received the list with the screen and the
\* webcam of a client both active and then, the screen connection having
\* terminated while the webcam connection streams on, the list with the
\* entry {hasScreen: false, hasWebcam: true}.
C17_Witness ==
    \E v \in Viewers, c, d \in ConnIds :
        /\ conns[c].phase = "terminated" /\ conns[c].unregs = 1
        /\ conns[c].streamType = "screen"
        /\ Live(d)
        /\ conns[d].streamType = "webcam"
        /\ conns[d].clientId = conns[c].clientId
        /\ Len(inbox[v]) >= 2
        /\ LET n == Len(inbox[v])
               id == conns[c].clientId
           IN  /\ inbox[v][n - 1] = [type |-> "streams",
                                     streams |-> << SnapshotEntry(id, TRUE, TRUE) >>]
               /\ inbox[v][n] = [type |-> "streams",
                                 streams |-> << SnapshotEntry(id, FALSE, TRUE) >>]
               /\ published = << inbox[v][n] >>

(***************************************************************************)
(* Further properties of the decoder (DecoderSpec)                         *)
(***************************************************************************)

\* The stream fed is one frame with a payload of at least one byte.
OneFrame ==
    /\ Len(items) = 1
    /\ ~items[1].oversize
    /\ Len(items[1].payload) >= 1

\* C18: a split length prefix.  For a stream of one frame with a payload of
\* L >= 1 bytes: a first chunk that ends strictly inside the 4-byte length
\* prefix publishes no frame, and the chunk that then delivers the rest of
\* the stream publishes exactly one frame, whose data is the payload.
C18_SplitLengthPrefix ==
    [][OneFrame =>
          /\ (pos = 0 /\ pos' \in 1 .. PrefixLen - 1)
                => published' = << >> /\ out' = << >>
          /\ (pos \in 1 .. PrefixLen - 1 /\ pos' = Len(Stream))
                => /\ out = << >>
                   /\ published' = << FrameMessage(DecClient, DecType, items[1].payload) >>
                   /\ out' = << toBase64(items[1].payload) >>]_vars

\* C18 witness: a frame with a 4-byte payload has been fed whole, its length
\* prefix was read in a chunk that began inside the prefix and went up to
\* the end of the stream, and the one frame has been published.
C18_Witness ==
    /\ OneFrame
    /\ Len(items[1].payload) = PrefixLen
    /\ pos = Len(Stream)
    /\ Len(reads) = 1
    /\ reads[1].at = 0
    /\ reads[1].from \in 1 .. PrefixLen - 1
    /\ reads[1].upto = Len(Stream)
    /\ out = << toBase64(items[1].payload) >>
    /\ Len(published) = 1

\* The offsets in the stream at which its items start.
ItemStarts ==
    { Len(Flatten(SubSeq(items, 1, k - 1))) : k \in 1 .. Len(items) }

\* C20: the awaiting-payload step.  In a stream of frames, whatever their
\* declared lengths and however the stream is cut into chunks, every length
\* prefix the decoder reads starts where a frame starts: the L bytes behind
\* a prefix declaring L are taken as payload and none of them is read as
\* (part of) a length prefix, also when they arrive in a later call than
\* the prefix.
C20_PayloadNeverReadAsPrefix ==
    FramesOnly(items) =>
        \A i \in 1 .. Len(reads) : reads[i].at \in ItemStarts

(***************************************************************************)
(* UploadSpec: one request, from its registration to the end of its body   *)
(***************************************************************************)

\* server.js:60  'end': the whole body has been delivered.
DecEnd ==
    /\ pos = Len(Stream)
    /\ streamBuffers[DecKey] # NoState
    /\ Commit(unregisterStream(Relay, DecClient, DecType))
    /\ UNCHANGED << page, readyState, sendThrows, conns, items, pos, reads, out >>

UploadNext ==
    \/ DecNext
    \/ DecEnd

UploadSpec == DecInit /\ [][UploadNext]_vars

\* The request has ended normally: the last handler run is that of 'end'.
Ended ==
    /\ pos = Len(Stream)
    /\ published = << StreamsMessage(activeStreams) >>
    /\ ~Flag(activeStreams, DecClient, DecType)

\* C19: one-frame upload end to end.  When a request whose body is exactly
\* one encoded frame with a payload of L >= 1 bytes has been delivered, in
\* whatever chunks, and has ended normally, exactly one frame has been
\* published for it, with the payload as its data, and the registry and the
\* decode buffers are as they were before the request: empty.
C19_OneFrameUpload ==
    (OneFrame /\ Ended)
        => /\ out = << toBase64(items[1].payload) >>
           /\ activeStreams = EmptyRelay.as
           /\ streamBuffers = EmptyRelay.sb

(***************************************************************************)
(* Properties of the decoder and of the registry, continued                *)
(***************************************************************************)

\* C21: the decoder drains its buffer.  Whenever a feedChunk call has
\* returned, the bytes left in the accumulation buffer do not suffice for the
\* next transition: they are fewer than the 4 of a length prefix when a
\* prefix is awaited, fewer than the payload length when a payload is
\* awaited (in both cases: fewer than state.need).
C21_DecoderDrainsBuffer ==
    Len(streamBuffers[DecKey].buf) < streamBuffers[DecKey].need

\* C22: the registry reflects the live connections.  In every state, each
\* producer connection that is registered and has not terminated has its
\* kind true in the registry entry of its clientId, also right after another
\* connection of the same clientId and kind has terminated.
C22_RegistryReflectsLiveConnections ==
    \A c \in ConnIds :
        Live(c) => Flag(activeStreams, conns[c].clientId, conns[c].streamType)

\* C23: a viewer's close cancels delivery to that viewer only.  The step of
\* a viewer's 'close' takes it out of viewingClients and leaves the
\* registry, the decode buffers, every viewer's messages and the membership
\* and order of the other viewers as they were; and a closed viewer stays
\* out of the set and receives no message of any later step.
C23_ViewerCloseCancelsOnlyThatViewer ==
    [][\A ws \in Viewers :
          /\ (readyState[ws] # "CLOSED" /\ readyState'[ws] = "CLOSED") =>
                /\ ~Member(viewingClients', ws)
                /\ viewingClients' = SelectSeq(viewingClients, LAMBDA v : v # ws)
                /\ activeStreams' = activeStreams
                /\ streamBuffers' = streamBuffers
                /\ inbox' = inbox
                /\ published' = << >>
          /\ readyState[ws] = "CLOSED" =>
                /\ readyState'[ws] = "CLOSED"
                /\ ~Member(viewingClients', ws)
                /\ inbox'[ws] = inbox[ws]]_vars

\* C23 witness: of two viewers one has closed; the two frames of a
\* producer published since have reached the other, which is still in the
\* set, and not the closed one.
C23_Witness ==
    \E v, w \in Viewers :
        /\ readyState[v] = "CLOSED"
        /\ ~Member(viewingClients, v)
        /\ Member(viewingClients, w)
        /\ Healthy(w)
        /\ Len(published) = 2
        /\ Len(inbox[w]) >= 2
        /\ SubSeq(inbox[w], Len(inbox[w]) - 1, Len(inbox[w])) = published
        /\ published[1].type = "frame"
        /\ inbox[v] # << >>
        /\ \A k \in 1 .. Len(inbox[v]) : inbox[v][k].type = "streams"

\* C25: decode buffers and registry stay consistent.  In every state,
\* after whatever registerStream, feedChunk and unregisterStream calls
\* (registrations repeated for one key and deregistrations with nothing left
\* to deregister included), streamBuffers has a decode state for the key of
\* (clientId, kind) exactly when activeStreams has an entry for clientId
\* with that kind true.
C25_BuffersMatchRegistry ==
    \A id \in ClientIds, t \in StreamTypes :
        (streamBuffers[bufferKey(id, t)] # NoState) <=> Flag(activeStreams, id, t)

\* C25 witness: a key was registered twice and deregistered twice, the
\* second time with nothing left, while the other kind of the same client
\* cannot be (two connections at most): the registry is empty and so are the
\* buffers.  Or: registered twice, fed, deregistered once.
C25_Witness ==
    \E c, d \in ConnIds :
        /\ c # d
        /\ conns[c].clientId = conns[d].clientId
        /\ conns[c].streamType = conns[d].streamType
        /\ conns[c].phase = "terminated" /\ conns[c].unregs = 1
        /\ conns[d].phase = "terminated" /\ conns[d].unregs = 1
        /\ conns[c].pos >= 1
        /\ activeStreams = << >>
        /\ \A key \in Keys : streamBuffers[key] = NoState

\* C26: no cross-talk between streams.  A 'data' event of a connection of
\* (clientId, kind), i.e. a feedChunk call for that key, changes the decode
\* state of no other key, leaves the registry and the viewer set as they
\* were, and publishes frame messages only, each tagged with that clientId
\* and kind.
C26_NoCrossTalk ==
    [][\A c \in ConnIds :
          (Live(c) /\ conns'[c].pos = conns[c].pos + 1) =>
              /\ \A id \in ClientIds, t \in StreamTypes :
                    (id # conns[c].clientId \/ t # conns[c].streamType)
                        => streamBuffers'[<< id, t >>] = streamBuffers[<< id, t >>]
              /\ activeStreams' = activeStreams
              /\ viewingClients' = viewingClients
              /\ \A k \in 1 .. Len(published') :
                    /\ published'[k].type = "frame"
                    /\ published'[k].clientId = conns[c].clientId
                    /\ published'[k].streamType = conns[c].streamType]_vars

\* C26 witness: the screen and the webcam connection of one client are
\* streaming; the webcam connection has published its two frames, tagged
\* webcam, and the screen connection's half-read prefix is still buffered.
C26_Witness ==
    \E c, d \in ConnIds :
        /\ Live(c) /\ Live(d)
        /\ conns[c].clientId = conns[d].clientId
        /\ conns[c].streamType = "webcam"
        /\ conns[d].streamType = "screen"
        /\ conns[c].pos = 2
        /\ conns[d].pos = 1
        /\ streamBuffers[bufferKey(conns[d].clientId, "screen")].buf = << 0, 0 >>
        /\ Len(published) = 2
        /\ published[1] = FrameMessage(conns[c].clientId, "webcam", << 7 >>)
        /\ published[2] = FrameMessage(conns[c].clientId, "webcam", << 8, 9 >>)

(***************************************************************************)
(* PageSpec: the viewer page (public/app.js)                               *)
(***************************************************************************)

\* app.js:245  the page has loaded: connect() has run once.
PageInit ==
    /\ activeStreams = EmptyRelay.as
    /\ streamBuffers = EmptyRelay.sb
    /\ viewingClients = EmptyRelay.vc
    /\ inbox = EmptyRelay.inbox
    /\ published = EmptyRelay.pub
    /\ uncaught = EmptyRelay.uncaught
    /\ readyState = [v \in Viewers |-> "NONE"]
    /\ sendThrows = [v \in Viewers |-> FALSE]
    /\ conns = [c \in ConnIds |-> IdleConn]
    /\ items = << >>
    /\ pos = 0
    /\ reads = << >>
    /\ out = << >>
    /\ page = connect(BlankPage)

\* The relay's variables, which the page's steps leave alone.
relayVars ==
    << activeStreams, streamBuffers, viewingClients, readyState, sendThrows,
       inbox, published, uncaught, conns, items, pos, reads, out >>

\* The sockets the page has created.
Sockets == 1 .. Len(page.sockets)

\* A socket that is connecting or open.
LiveSocket(p, s) ==
    p.sockets[s] \in {"CONNECTING", "OPEN"}

\* app.js:28  'open' on socket s.
PageOpen(s) ==
    /\ s \in Sockets
    /\ page.sockets[s] = "CONNECTING"
    /\ page' = onopen(page, s)
    /\ UNCHANGED relayVars

\* app.js:52  'close' on socket s.
PageClose(s) ==
    /\ s \in Sockets
    /\ LiveSocket(page, s)
    /\ page' = onclose(page, s)
    /\ UNCHANGED relayVars

\* app.js:66  'error' on socket s.
PageError(s) ==
    /\ s \in Sockets
    /\ LiveSocket(page, s)
    /\ page' = onerror(page, s)
    /\ UNCHANGED relayVars

\* app.js:59-62  a pending timer runs its callback, not before it is due.
PageTimer(id) ==
    \E t \in page.timers :
        /\ t.id = id
        /\ page.now >= t.due
        /\ Len(page.sockets) < MaxSockets
        /\ page' = reconnectCallback(page, t)
        /\ UNCHANGED relayVars

\* app.js:235-242, 284  refreshStreams() is called.
PageRefresh ==
    /\ Len(page.sockets) < MaxSockets
    /\ page' = refreshStreams(page)
    /\ UNCHANGED relayVars

\* A second passes.
PageTick ==
    /\ page.now < MaxTime
    /\ page' = [page EXCEPT !.now = @ + 1]
    /\ UNCHANGED relayVars

PageNext ==
    \/ \E s \in 1 .. MaxSockets : PageOpen(s)
    \/ \E s \in 1 .. MaxSockets : PageClose(s)
    \/ \E s \in 1 .. MaxSockets : PageError(s)
    \/ \E id \in 1 .. MaxSockets : PageTimer(id)
    \/ PageRefresh
    \/ PageTick

PageSpec == PageInit /\ [][PageNext]_vars

\* A socket of the page closes in this step.
SocketCloses ==
    \E s \in Sockets : LiveSocket(page, s) /\ page'.sockets[s] = "CLOSED"

\* Timer t runs its callback in this step: it is due, and connect() runs
\* once.
TimerRuns(t) ==
    /\ page.now >= t.due
    /\ Len(page'.sockets) = Len(page.sockets) + 1
    /\ page'.sockets[page'.ws] = "CONNECTING"

\* Timer t is cleared in this step by the 'open' of a socket.
TimerCleared(t) ==
    /\ page'.sockets # page.sockets
    /\ Len(page'.sockets) = Len(page.sockets)
    /\ \E s \in Sockets : page.sockets[s] = "CONNECTING" /\ page'.sockets[s] = "OPEN"

\* At most one reconnect timer is pending, and a 'close' schedules one, due
\* 3 seconds later, exactly when it finds none pending; connect() does not
\* run in the step of the 'close'.
SingleSpacedTimer ==
    /\ Cardinality(page'.timers) <= 1
    /\ SocketCloses =>
          /\ Len(page'.sockets) = Len(page.sockets)
          /\ IF page.timers = {}
             THEN /\ Cardinality(page'.timers) = 1
                  /\ \A t \in page'.timers : t.due = page.now + ReconnectDelay
             ELSE page'.timers = page.timers

C27_SingleLiveSocket ==
    Cardinality({ s \in Sockets : LiveSocket(page, s) }) <= 1

====
